---------------------------- MODULE Spec2Model ----------------------------
(***************************************************************************)
(* reduce.cpp: the sum of a rows x cols matrix computed by n_threads       *)
(* threads, with static (strided) or dynamic (shared counter) balancing.   *)
(*                                                                         *)
(* The model follows the program text: main() fills the matrix, parses the *)
(* command line with getopt, resizes the result vectors, starts the        *)
(* threads, joins them one by one and folds the per-thread sums.  Every    *)
(* thread is a little program counter machine over sum_static or           *)
(* sum_dynamic.  A step of a thread is one access of memory that other     *)
(* threads can see (a lock, the counter, an element of sum or tcount),     *)
(* together with the tests on its own locals that follow it.               *)
(***************************************************************************)
EXTENDS Integers, Sequences, FiniteSets, TLC

(***************************************************************************)
(* Sizes.  The program has rows = 1000 and cols = 100; the model keeps the *)
(* names and scales the values down.                                       *)
(***************************************************************************)
rows == 2
cols == 2
\* std::thread::hardware_concurrency() returns a value in 1..MaxHW
MaxHW == 3
\* the command line holds at most MaxArgs options
MaxArgs == 2
\* unsigned int is modelled UIntBits wide
UIntBits == 8
\* rand() returns a value of RandBits bits
RandBits == 3
\* the argument of srand
Seed == 4660

UIntMod == 2 ^ UIntBits
RandMod == 2 ^ RandBits
\* n_threads is 2 by default and at most hardware_concurrency() otherwise
MaxThreads == IF MaxHW > 2 THEN MaxHW ELSE 2
Tids == 0 .. (MaxThreads - 1)
RowIdx == 0 .. (rows - 1)
ColIdx == 0 .. (cols - 1)
\* value of a std::mutex that no thread holds
Free == -1
\* placeholder for a local that has not been assigned yet (never read)
NoVal == -1

VARIABLES
    hw,            \* std::thread::hardware_concurrency()
    args,          \* the options of argv that getopt has not returned yet
    main_pc,       \* position of main()
    dflag,         \* main: int dflag
    n_threads,     \* main: unsigned int n_threads
    mi,            \* main: the index i of the loop main() is in
    total_work,    \* main: int total_work
    gross_sum,     \* main: uint64_t gross_sum
    usage,         \* whether the usage message was written to std::cerr
    report,        \* main's last line on std::cout: <<total_work, gross_sum>>
    work,          \* int work[rows][cols]
    counter,       \* volatile int counter
    counter_lock,  \* std::mutex counter_lock: Free or the holder's tid
    stdout_lock,   \* std::mutex stdout_lock: Free or the holder's tid
    tcount,        \* std::vector<int> tcount
    sum,           \* std::vector<uint64_t> sum
    pc,            \* position of each thread
    loc,           \* the locals of each thread: i, j, done, count_copy
    rowlog,        \* history: the rows each thread has summed, in order
    entry          \* history: counter as each thread last found it on
                   \* taking counter_lock

vars == <<hw, args, main_pc, dflag, n_threads, mi, total_work, gross_sum,
          usage, report, work, counter, counter_lock, stdout_lock, tcount,
          sum, pc, loc, rowlog, entry>>

mainVars == <<hw, args, main_pc, dflag, n_threads, mi, total_work,
              gross_sum, usage, report, work>>

-----------------------------------------------------------------------------
(***************************************************************************)
(* The command line.  An option is its letter and its argument (a string,  *)
(* written as a sequence of characters; <<>> when the option has none).    *)
(***************************************************************************)
Digits == <<"0", "1", "2", "3", "4", "5", "6", "7", "8", "9">>

IsDigit(c) == \E d \in 1 .. 10 : Digits[d] = c

DigitVal(c) == (CHOOSE d \in 1 .. 10 : Digits[d] = c) - 1

\* atoi on the digits that follow the sign: stops at the first non-digit
RECURSIVE AtoiDigits(_, _)
AtoiDigits(s, acc) ==
    IF s = <<>> \/ ~IsDigit(Head(s))
    THEN acc
    ELSE AtoiDigits(Tail(s), acc * 10 + DigitVal(Head(s)))

\* atoi: an optional sign, then digits; 0 when there is no digit
Atoi(s) ==
    IF s = <<>> THEN 0
    ELSE IF Head(s) = "-" THEN 0 - AtoiDigits(Tail(s), 0)
    ELSE IF Head(s) = "+" THEN AtoiDigits(Tail(s), 0)
    ELSE AtoiDigits(s, 0)

\* the conversion of the int atoi returns to unsigned int
ToUnsigned(v) == v % UIntMod

\* what getopt(argc, argv, "dt:") returns for an option letter
GetOpt(letter) == IF letter \in {"d", "t"} THEN letter ELSE "?"

\* n_threads after case 't' (lines 163-165)
ClampThreads(optarg, h) ==
    LET n == ToUnsigned(Atoi(optarg))
    IN  IF n > h THEN h ELSE n

\* the arguments of -t that the model tries
TArgs == { <<Digits[n + 1]>> : n \in 0 .. (MaxHW + 1) }
            \cup { <<"-", "1">>, <<"x">> }

Options == { [o |-> "d", arg |-> <<>>], [o |-> "x", arg |-> <<>>] }
             \cup { [o |-> "t", arg |-> a] : a \in TArgs }

RECURSIVE SeqsUpTo(_, _)
SeqsUpTo(S, n) ==
    IF n = 0 THEN { <<>> }
    ELSE LET shorter == SeqsUpTo(S, n - 1)
         IN  shorter \cup { Append(s, x) : s \in shorter, x \in S }

CommandLines == SeqsUpTo(Options, MaxArgs)

-----------------------------------------------------------------------------
(***************************************************************************)
(* The matrix.  rand() is modelled as a linear congruential generator      *)
(* seeded by srand(Seed); work[i][j] is output number i*cols + j + 1.      *)
(***************************************************************************)
RECURSIVE Rand(_)
Rand(k) == IF k = 0 THEN Seed % RandMod ELSE (5 * Rand(k - 1) + 3) % RandMod

FilledWork == [i \in RowIdx |-> [j \in ColIdx |-> Rand(i * cols + j + 1)]]

-----------------------------------------------------------------------------
\* the parameters and locals of a thread before it runs
InitLoc == [num_threads |-> 0, i |-> 0, j |-> 0, done |-> FALSE,
            count_copy |-> NoVal]

Init ==
    /\ hw \in 1 .. MaxHW
    /\ args \in CommandLines
    /\ main_pc = "fill"
    /\ dflag = 0
    /\ n_threads = 2
    /\ mi = 0
    /\ total_work = 0
    /\ gross_sum = 0
    /\ usage = FALSE
    /\ report = <<>>
    /\ work = [i \in RowIdx |-> [j \in ColIdx |-> 0]]
    /\ counter = rows
    /\ counter_lock = Free
    /\ stdout_lock = Free
    /\ tcount = [t \in {} |-> 0]
    /\ sum = [t \in {} |-> 0]
    /\ pc = [t \in Tids |-> "unborn"]
    /\ loc = [t \in Tids |-> InitLoc]
    /\ rowlog = [t \in Tids |-> <<>>]
    /\ entry = [t \in Tids |-> NoVal]

threadVars == <<counter, counter_lock, stdout_lock, tcount, sum, pc, loc,
                rowlog, entry>>

-----------------------------------------------------------------------------
(***************************************************************************)
(* main()                                                                  *)
(***************************************************************************)

\* lines 141-148: srand(0x1234) and the fill of work
main_fill ==
    /\ main_pc = "fill"
    /\ work' = FilledWork
    /\ main_pc' = "getopt"
    /\ UNCHANGED <<hw, args, dflag, n_threads, mi, total_work, gross_sum,
                   usage, report>>
    /\ UNCHANGED threadVars

\* lines 155-159: case 'd'
main_getopt_d ==
    /\ main_pc = "getopt"
    /\ args # <<>>
    /\ GetOpt(Head(args).o) = "d"
    /\ dflag' = 1
    /\ args' = Tail(args)
    /\ UNCHANGED <<hw, main_pc, n_threads, mi, total_work, gross_sum, usage,
                   report, work>>
    /\ UNCHANGED threadVars

\* lines 161-168: case 't'
main_getopt_t ==
    /\ main_pc = "getopt"
    /\ args # <<>>
    /\ GetOpt(Head(args).o) = "t"
    /\ n_threads' = ClampThreads(Head(args).arg, hw)
    /\ args' = Tail(args)
    /\ UNCHANGED <<hw, main_pc, dflag, mi, total_work, gross_sum, usage,
                   report, work>>
    /\ UNCHANGED threadVars

\* lines 170-177: case '?'
main_getopt_usage ==
    /\ main_pc = "getopt"
    /\ args # <<>>
    /\ GetOpt(Head(args).o) = "?"
    /\ dflag' = -1
    /\ usage' = TRUE
    /\ args' = Tail(args)
    /\ UNCHANGED <<hw, main_pc, n_threads, mi, total_work, gross_sum, report,
                   work>>
    /\ UNCHANGED threadVars

\* line 151: getopt returns -1, the loop ends
main_getopt_end ==
    /\ main_pc = "getopt"
    /\ args = <<>>
    /\ main_pc' = "if_dflag"
    /\ UNCHANGED <<hw, args, dflag, n_threads, mi, total_work, gross_sum,
                   usage, report, work>>
    /\ UNCHANGED threadVars

\* lines 184-189: dflag != -1, the vectors get n_threads zeroed slots
main_resize ==
    /\ main_pc = "if_dflag"
    /\ dflag # -1
    /\ tcount' = [t \in 0 .. (n_threads - 1) |-> 0]
    /\ sum' = [t \in 0 .. (n_threads - 1) |-> 0]
    /\ mi' = 0
    /\ main_pc' = "spawn"
    /\ UNCHANGED <<hw, args, dflag, n_threads, total_work, gross_sum, usage,
                   report, work>>
    /\ UNCHANGED <<counter, counter_lock, stdout_lock, pc, loc, rowlog, entry>>

\* lines 184, 216-218: dflag == -1, nothing is computed
main_skip ==
    /\ main_pc = "if_dflag"
    /\ dflag = -1
    /\ main_pc' = "done"
    /\ UNCHANGED <<hw, args, dflag, n_threads, mi, total_work, gross_sum,
                   usage, report, work>>
    /\ UNCHANGED threadVars

\* main() starting sum_dynamic whatever dflag is
EntryPoint_Dynamic(d) == "d_start"

\* the function a new thread runs: sum_dynamic if dflag == 1, sum_static
\* if dflag == 0 (lines 191-200)
EntryPoint(d) == IF d = 1 THEN "d_start" ELSE "s_start"

\* lines 193-194 and 198-199: new std::thread(...), the thread is running
main_spawn ==
    /\ main_pc = "spawn"
    /\ dflag \in {0, 1}
    /\ mi < n_threads
    /\ pc' = [pc EXCEPT ![mi] = EntryPoint(dflag)]
    /\ loc' = [loc EXCEPT ![mi].num_threads = n_threads]
    /\ mi' = mi + 1
    /\ UNCHANGED <<hw, args, main_pc, dflag, n_threads, total_work,
                   gross_sum, usage, report, work>>
    /\ UNCHANGED <<counter, counter_lock, stdout_lock, tcount, sum, rowlog,
                   entry>>

\* lines 193/198 and 202: the start loop ends, total_work = 0
main_spawned ==
    /\ main_pc = "spawn"
    /\ ~(dflag \in {0, 1} /\ mi < n_threads)
    /\ total_work' = 0
    /\ mi' = 0
    /\ main_pc' = "join"
    /\ UNCHANGED <<hw, args, dflag, n_threads, gross_sum, usage, report,
                   work>>
    /\ UNCHANGED threadVars

\* a join() that returns as soon as the thread exists
Joinable_Started(t) == pc[t] # "unborn"

\* a join loop that waits for thread 0 every time
Joinable_First(t) == pc[0] = "finished"

\* whether threads.at(t)->join() can return
Joinable(t) == pc[t] = "finished"

\* lines 206-207: join() blocks until the thread has returned
main_join ==
    /\ main_pc = "join"
    /\ mi < n_threads
    /\ Joinable(mi)
    /\ main_pc' = "add"
    /\ UNCHANGED <<hw, args, dflag, n_threads, mi, total_work, gross_sum,
                   usage, report, work>>
    /\ UNCHANGED threadVars

\* line 208 written with = for +=
main_add_Assign ==
    /\ main_pc = "add"
    /\ total_work' = tcount[mi]
    /\ mi' = mi + 1
    /\ main_pc' = "join"
    /\ UNCHANGED <<hw, args, dflag, n_threads, gross_sum, usage, report,
                   work>>
    /\ UNCHANGED threadVars

\* line 208: total_work += tcount.at(i), then ++i
main_add ==
    /\ main_pc = "add"
    /\ total_work' = total_work + tcount[mi]
    /\ mi' = mi + 1
    /\ main_pc' = "join"
    /\ UNCHANGED <<hw, args, dflag, n_threads, gross_sum, usage, report,
                   work>>
    /\ UNCHANGED threadVars

\* lines 204 and 211: the join loop ends, gross_sum = 0
main_joined ==
    /\ main_pc = "join"
    /\ mi >= n_threads
    /\ gross_sum' = 0
    /\ mi' = 0
    /\ main_pc' = "fold"
    /\ UNCHANGED <<hw, args, dflag, n_threads, total_work, usage, report,
                   work>>
    /\ UNCHANGED threadVars

\* lines 212-213: gross_sum += n for the next element n of sum
main_fold ==
    /\ main_pc = "fold"
    /\ mi \in DOMAIN sum
    /\ gross_sum' = gross_sum + sum[mi]
    /\ mi' = mi + 1
    /\ UNCHANGED <<hw, args, main_pc, dflag, n_threads, total_work, usage,
                   report, work>>
    /\ UNCHANGED threadVars

\* line 215: the totals are written to std::cout
main_report ==
    /\ main_pc = "fold"
    /\ mi \notin DOMAIN sum
    /\ report' = <<total_work, gross_sum>>
    /\ main_pc' = "done"
    /\ UNCHANGED <<hw, args, dflag, n_threads, mi, total_work, gross_sum,
                   usage, work>>
    /\ UNCHANGED threadVars

main ==
    \/ main_fill
    \/ main_getopt_d
    \/ main_getopt_t
    \/ main_getopt_usage
    \/ main_getopt_end
    \/ main_resize
    \/ main_skip
    \/ main_spawn
    \/ main_spawned
    \/ main_join
    \/ main_add
    \/ main_joined
    \/ main_fold
    \/ main_report

-----------------------------------------------------------------------------
(***************************************************************************)
(* What the row loops read and write.                                      *)
(***************************************************************************)

\* the values a read of work[i][j] can give: the element, or anything at
\* all when the index is outside the array
ReadWork(i, j) ==
    IF i \in RowIdx /\ j \in ColIdx THEN {work[i][j]} ELSE 0 .. (RandMod - 1)

\* a thread's step that touches only its position and its locals
Local(t, newpc, newloc) ==
    /\ pc' = [pc EXCEPT ![t] = newpc]
    /\ loc' = [loc EXCEPT ![t] = newloc]

\* the for loop of lines 45-47 adding column 0 of the row every time
AddElement_FirstColumn(t, i, again, after) ==
    /\ \E v \in ReadWork(i, 0) :
          sum' = [sum EXCEPT ![t] = sum[t] + v]
    /\ Local(t, IF loc[t].j + 1 < cols THEN again ELSE after,
             [loc[t] EXCEPT !.j = loc[t].j + 1])

\* the for loop of lines 45-47 adding into slot 0 whatever tid is
AddElement_SlotZero(t, i, again, after) ==
    /\ \E v \in ReadWork(i, loc[t].j) :
          sum' = [sum EXCEPT ![0] = sum[0] + v]
    /\ Local(t, IF loc[t].j + 1 < cols THEN again ELSE after,
             [loc[t] EXCEPT !.j = loc[t].j + 1])

\* sum[tid] += (uint64_t) work[i][j]; ++j, and where the for loop goes next
\* (lines 45-47 and 96-97)
AddElement(t, i, again, after) ==
    /\ \E v \in ReadWork(i, loc[t].j) :
          sum' = [sum EXCEPT ![t] = sum[t] + v]
    /\ Local(t, IF loc[t].j + 1 < cols THEN again ELSE after,
             [loc[t] EXCEPT !.j = loc[t].j + 1])

\* the row loop without its ++tcount[tid]
CountRow_Forgotten(t, i) ==
    /\ tcount' = tcount
    /\ rowlog' = [rowlog EXCEPT ![t] = Append(rowlog[t], i)]

\* ++tcount[tid] after row i was summed (lines 49 and 99)
CountRow(t, i) ==
    /\ tcount' = [tcount EXCEPT ![t] = tcount[t] + 1]
    /\ rowlog' = [rowlog EXCEPT ![t] = Append(rowlog[t], i)]

\* a lock() that never waits
CanLock_Always(m) == TRUE

\* std::mutex::lock: blocks until no thread holds m, then t holds it
CanLock(m) == m = Free

-----------------------------------------------------------------------------
(***************************************************************************)
(* sum_static(tid, num_threads)                                            *)
(***************************************************************************)

\* the test of line 43 written with <= for <
StaticHasRow_Inclusive(i) == i <= rows

\* line 43: i < rows
StaticHasRow(i) == i < rows

\* line 50 written as ++i
StaticNextRow_Successor(i, num_threads) == i + 1

\* line 50: i += num_threads
StaticNextRow(i, num_threads) == i + num_threads

\* lines 43-45: where while (i < rows) sends a thread whose i is i: into
\* the for loop (j = 0) or past the while loop
StaticWhile(i) ==
    IF StaticHasRow(i) THEN (IF 0 < cols THEN "s_for" ELSE "s_inc")
    ELSE "s_end"

\* line 38: stdout_lock.lock()
static_lock_start(t) ==
    /\ pc[t] = "s_start"
    /\ CanLock(stdout_lock)
    /\ stdout_lock' = t
    /\ Local(t, "s_starting", loc[t])
    /\ UNCHANGED <<counter, counter_lock, tcount, sum, rowlog, entry>>
    /\ UNCHANGED mainVars

\* lines 39-43 with the loop body entered before its first test
static_unlock_start_DoWhile(t) ==
    /\ pc[t] = "s_starting"
    /\ stdout_lock' = Free
    /\ Local(t, "s_for", [loc[t] EXCEPT !.i = t, !.j = 0])
    /\ UNCHANGED <<counter, counter_lock, tcount, sum, rowlog, entry>>
    /\ UNCHANGED mainVars

\* lines 39-43: the start line, stdout_lock.unlock(), int i = tid, and the
\* first test of the while loop
static_unlock_start(t) ==
    /\ pc[t] = "s_starting"
    /\ stdout_lock' = Free
    /\ Local(t, StaticWhile(t), [loc[t] EXCEPT !.i = t, !.j = 0])
    /\ UNCHANGED <<counter, counter_lock, tcount, sum, rowlog, entry>>
    /\ UNCHANGED mainVars

\* lines 45-48: one round of the for loop
static_for(t) ==
    /\ pc[t] = "s_for"
    /\ AddElement(t, loc[t].i, "s_for", "s_inc")
    /\ UNCHANGED <<counter, counter_lock, stdout_lock, tcount, rowlog, entry>>
    /\ UNCHANGED mainVars

\* lines 49-50 and 43: ++tcount[tid]; i += num_threads, and the next test
\* of the while loop
static_inc(t) ==
    /\ pc[t] = "s_inc"
    /\ CountRow(t, loc[t].i)
    /\ LET next == StaticNextRow(loc[t].i, loc[t].num_threads)
       IN  Local(t, StaticWhile(next), [loc[t] EXCEPT !.i = next, !.j = 0])
    /\ UNCHANGED <<counter, counter_lock, stdout_lock, sum, entry>>
    /\ UNCHANGED mainVars

\* line 53: stdout_lock.lock()
static_lock_end(t) ==
    /\ pc[t] = "s_end"
    /\ CanLock(stdout_lock)
    /\ stdout_lock' = t
    /\ Local(t, "s_ending", loc[t])
    /\ UNCHANGED <<counter, counter_lock, tcount, sum, rowlog, entry>>
    /\ UNCHANGED mainVars

\* lines 54-56: the ending line, stdout_lock.unlock(), return
static_unlock_end(t) ==
    /\ pc[t] = "s_ending"
    /\ stdout_lock' = Free
    /\ Local(t, "finished", loc[t])
    /\ UNCHANGED <<counter, counter_lock, tcount, sum, rowlog, entry>>
    /\ UNCHANGED mainVars

sum_static(t) ==
    \/ static_lock_start(t)
    \/ static_unlock_start(t)
    \/ static_for(t)
    \/ static_inc(t)
    \/ static_lock_end(t)
    \/ static_unlock_end(t)

-----------------------------------------------------------------------------
(***************************************************************************)
(* sum_dynamic(tid)                                                        *)
(***************************************************************************)

\* line 75: stdout_lock.lock()
dynamic_lock_start(t) ==
    /\ pc[t] = "d_start"
    /\ CanLock(stdout_lock)
    /\ stdout_lock' = t
    /\ Local(t, "d_starting", loc[t])
    /\ UNCHANGED <<counter, counter_lock, tcount, sum, rowlog, entry>>
    /\ UNCHANGED mainVars

\* line 80: where while (!done) sends a thread: to the lock or past the loop
DynamicWhile(done) == IF ~done THEN "d_lock" ELSE "d_end"

\* lines 94-96 without the test of done
DynamicIf_Always(done) == IF 0 < cols THEN "d_for" ELSE "d_inc"

\* lines 94-96 and 80: where if (!done) sends a thread after the unlock:
\* into the for loop (j = 0), or to the test of the while loop
DynamicIf(done) ==
    IF ~done THEN (IF 0 < cols THEN "d_for" ELSE "d_inc")
    ELSE DynamicWhile(done)

\* lines 76-80: the start line, stdout_lock.unlock(), bool done = false, and
\* the first test of the while loop
dynamic_unlock_start(t) ==
    /\ pc[t] = "d_starting"
    /\ stdout_lock' = Free
    /\ Local(t, DynamicWhile(FALSE), [loc[t] EXCEPT !.done = FALSE])
    /\ UNCHANGED <<counter, counter_lock, tcount, sum, rowlog, entry>>
    /\ UNCHANGED mainVars

\* line 84: counter_lock.lock()
dynamic_lock_counter(t) ==
    /\ pc[t] = "d_lock"
    /\ CanLock(counter_lock)
    /\ counter_lock' = t
    /\ entry' = [entry EXCEPT ![t] = counter]
    /\ Local(t, "d_check", loc[t])
    /\ UNCHANGED <<counter, stdout_lock, tcount, sum, rowlog>>
    /\ UNCHANGED mainVars

\* the test of line 86 written with >= for >
HasRow_Inclusive(c) == c >= 0

\* line 86: counter > 0
HasRow(c) == c > 0

\* lines 86, 88-89: if (counter > 0) ... else done = true
dynamic_check(t) ==
    /\ pc[t] = "d_check"
    /\ IF HasRow(counter)
       THEN Local(t, "d_dec", loc[t])
       ELSE Local(t, "d_copy", [loc[t] EXCEPT !.done = TRUE])
    /\ UNCHANGED <<counter, counter_lock, stdout_lock, tcount, sum, rowlog,
                   entry>>
    /\ UNCHANGED mainVars

\* line 87: --counter
dynamic_dec(t) ==
    /\ pc[t] = "d_dec"
    /\ counter' = counter - 1
    /\ Local(t, "d_copy", loc[t])
    /\ UNCHANGED <<counter_lock, stdout_lock, tcount, sum, rowlog, entry>>
    /\ UNCHANGED mainVars

\* line 90 copying the index below the counter
dynamic_copy_Below(t) ==
    /\ pc[t] = "d_copy"
    /\ Local(t, "d_unlock", [loc[t] EXCEPT !.count_copy = counter - 1])
    /\ UNCHANGED <<counter, counter_lock, stdout_lock, tcount, sum, rowlog,
                   entry>>
    /\ UNCHANGED mainVars

\* line 90: count_copy = counter
dynamic_copy(t) ==
    /\ pc[t] = "d_copy"
    /\ Local(t, "d_unlock", [loc[t] EXCEPT !.count_copy = counter])
    /\ UNCHANGED <<counter, counter_lock, stdout_lock, tcount, sum, rowlog,
                   entry>>
    /\ UNCHANGED mainVars

\* lines 92-96 without the unlock
dynamic_unlock_counter_Held(t) ==
    /\ pc[t] = "d_unlock"
    /\ Local(t, DynamicIf(loc[t].done), [loc[t] EXCEPT !.j = 0])
    /\ UNCHANGED <<counter, counter_lock, stdout_lock, tcount, sum, rowlog,
                   entry>>
    /\ UNCHANGED mainVars

\* lines 92-96: counter_lock.unlock(), then if (!done)
dynamic_unlock_counter(t) ==
    /\ pc[t] = "d_unlock"
    /\ counter_lock' = Free
    /\ Local(t, DynamicIf(loc[t].done), [loc[t] EXCEPT !.j = 0])
    /\ UNCHANGED <<counter, stdout_lock, tcount, sum, rowlog, entry>>
    /\ UNCHANGED mainVars

\* lines 96-97: one round of the for loop
dynamic_for(t) ==
    /\ pc[t] = "d_for"
    /\ AddElement(t, loc[t].count_copy, "d_for", "d_inc")
    /\ UNCHANGED <<counter, counter_lock, stdout_lock, tcount, rowlog, entry>>
    /\ UNCHANGED mainVars

\* lines 99 and 80: ++tcount[tid], and the next test of the while loop
dynamic_inc(t) ==
    /\ pc[t] = "d_inc"
    /\ CountRow(t, loc[t].count_copy)
    /\ Local(t, DynamicWhile(loc[t].done), loc[t])
    /\ UNCHANGED <<counter, counter_lock, stdout_lock, sum, entry>>
    /\ UNCHANGED mainVars

\* line 103: stdout_lock.lock()
dynamic_lock_end(t) ==
    /\ pc[t] = "d_end"
    /\ CanLock(stdout_lock)
    /\ stdout_lock' = t
    /\ Local(t, "d_ending", loc[t])
    /\ UNCHANGED <<counter, counter_lock, tcount, sum, rowlog, entry>>
    /\ UNCHANGED mainVars

\* lines 104-106: the ending line, stdout_lock.unlock(), return
dynamic_unlock_end(t) ==
    /\ pc[t] = "d_ending"
    /\ stdout_lock' = Free
    /\ Local(t, "finished", loc[t])
    /\ UNCHANGED <<counter, counter_lock, tcount, sum, rowlog, entry>>
    /\ UNCHANGED mainVars

sum_dynamic(t) ==
    \/ dynamic_lock_start(t)
    \/ dynamic_unlock_start(t)
    \/ dynamic_lock_counter(t)
    \/ dynamic_check(t)
    \/ dynamic_dec(t)
    \/ dynamic_copy(t)
    \/ dynamic_unlock_counter(t)
    \/ dynamic_for(t)
    \/ dynamic_inc(t)
    \/ dynamic_lock_end(t)
    \/ dynamic_unlock_end(t)

-----------------------------------------------------------------------------
Next ==
    \/ main
    \/ \E t \in Tids : sum_static(t)
    \/ \E t \in Tids : sum_dynamic(t)

Spec == Init /\ [][Next]_vars

\* every thread that can take a step eventually takes one: main() and each
\* std::thread are scheduled by the operating system; a thread blocked in
\* lock() or join() has no step to take
Fairness ==
    /\ WF_vars(main)
    /\ \A t \in Tids : WF_vars(sum_static(t)) /\ WF_vars(sum_dynamic(t))

FairSpec == Spec /\ Fairness


-----------------------------------------------------------------------------
(***************************************************************************)
(* Properties                                                              *)
(***************************************************************************)

\* the threads main() starts
Workers == 0 .. (n_threads - 1)

\* the number of times r occurs in the sequence s
Occurrences(s, r) == Cardinality({k \in DOMAIN s : s[k] = r})

RECURSIVE TimesSummedBy(_, _)
\* how often row r was summed by the threads 0 .. n-1
TimesSummedBy(r, n) ==
    IF n = 0 THEN 0
    ELSE TimesSummedBy(r, n - 1) + Occurrences(rowlog[n - 1], r)

TimesSummed(r) == TimesSummedBy(r, MaxThreads)

\* at least one thread was asked for, all were started and all have returned
AllTerminated ==
    /\ n_threads >= 1
    /\ main_pc \notin {"fill", "getopt", "if_dflag", "spawn"}
    /\ \A t \in Workers : pc[t] = "finished"

\* main() has written its totals for a run of at least one thread
Reported == report # <<>> /\ n_threads >= 1

RECURSIVE RowSum(_, _)
\* work[r][0] + ... + work[r][n-1]
RowSum(r, n) == IF n = 0 THEN 0 ELSE RowSum(r, n - 1) + work[r][n - 1]

RECURSIVE SerialSum(_)
\* the sum of the rows 0 .. n-1 of work, added one after the other
SerialSum(n) == IF n = 0 THEN 0 ELSE SerialSum(n - 1) + RowSum(n - 1, cols)

ReferenceSum == SerialSum(rows)

\* C1: in both modes and for every n_threads >= 1, no thread ever sums an
\* index that is not a row, no row is ever summed twice, and once all
\* threads have returned every row 0 .. rows-1 was summed exactly once.
C1_Exhaustive ==
    /\ \A t \in Tids : \A k \in DOMAIN rowlog[t] : rowlog[t][k] \in RowIdx
    /\ \A r \in RowIdx : TimesSummed(r) <= 1
    /\ AllTerminated => \A r \in RowIdx : TimesSummed(r) = 1

\* a dynamic run of three threads has ended in which two different threads
\* summed a row each
C1_Witness ==
    /\ AllTerminated
    /\ dflag = 1
    /\ n_threads = 3
    /\ \E t, u \in Workers : t # u /\ rowlog[t] # <<>> /\ rowlog[u] # <<>>

\* C2: for every n_threads >= 1 and in both modes, the gross_sum main()
\* writes is the sum of all elements of work added serially.
C2_SumCorrect ==
    Reported => gross_sum = ReferenceSum /\ report[2] = ReferenceSum

\* a dynamic run has reported in which two threads hold a partial sum each
C2_Witness ==
    /\ Reported
    /\ dflag = 1
    /\ \E t, u \in Workers : t # u /\ sum[t] > 0 /\ sum[u] > 0

\* C3: for every n_threads >= 1 and in both modes, the total_work main()
\* writes is rows.
C3_RowCount ==
    Reported => total_work = rows /\ report[1] = rows

\* a dynamic run of three threads has reported in which one thread summed
\* no row and another summed one
C3_Witness ==
    /\ Reported
    /\ dflag = 1
    /\ n_threads = 3
    /\ \E t, u \in Workers : tcount[t] = 0 /\ tcount[u] = 1


\* C4: counter starts at rows, is never below 0 or above rows, every step
\* leaves it unchanged or takes exactly 1 from it, and once it is 0 it
\* stays 0.
C4_CounterBounds ==
    /\ counter = rows
    /\ [](counter >= 0 /\ counter <= rows)
    /\ [][/\ counter' = counter \/ counter' = counter - 1
          /\ counter = 0 => counter' = 0]_vars

\* a thread took counter_lock when counter was 0 and has left it at 0
C4_Witness ==
    /\ dflag = 1
    /\ counter = 0
    /\ \E t \in Workers :
          pc[t] = "d_copy" /\ entry[t] = 0 /\ loc[t].done

\* thread t is between counter_lock.lock() and counter_lock.unlock()
InCritical(t) == pc[t] \in {"d_check", "d_dec", "d_copy", "d_unlock"}

\* C5: at most one thread is between counter_lock.lock() and
\* counter_lock.unlock(), and it is the holder of counter_lock (the steps
\* that read or write counter are taken only there); so the counter is
\* still positive when the thread that tested it decrements it, and the
\* count_copy a thread leaves with is the counter its own test and
\* decrement produced.
C5_MutualExclusion ==
    /\ \A t, u \in Tids : InCritical(t) /\ InCritical(u) => t = u
    /\ \A t \in Tids : InCritical(t) => counter_lock = t
    /\ \A t \in Tids : pc[t] = "d_dec" => counter = entry[t] /\ counter > 0
    /\ \A t \in Tids : pc[t] = "d_unlock" => loc[t].count_copy = counter

\* one thread is about to unlock with its copy while another waits for the
\* lock
C5_Witness ==
    \E t, u \in Workers :
        /\ pc[t] = "d_unlock"
        /\ ~loc[t].done
        /\ pc[u] = "d_lock"

\* thread t has been through the critical section and not yet back to the
\* lock
AfterClaim(t) == pc[t] \in {"d_unlock", "d_for", "d_inc", "d_end", "d_ending"}

\* C6: a thread that found counter = c > 0 on taking the lock leaves the
\* critical section with counter = c - 1 and count_copy = c - 1, not done,
\* and the row it then sums is c - 1; a thread that found counter = 0 leaves
\* counter at 0, is done and goes past its loop; a thread that is done never
\* adds to its sum or tcount again.
C6_ClaimNextRow ==
    /\ [](\A t \in Tids :
            /\ AfterClaim(t) /\ entry[t] > 0 =>
                  /\ ~loc[t].done
                  /\ loc[t].count_copy = entry[t] - 1
                  /\ pc[t] = "d_unlock" => counter = entry[t] - 1
                  /\ pc[t] \in {"d_unlock", "d_for", "d_inc"}
            /\ AfterClaim(t) /\ entry[t] = 0 =>
                  /\ loc[t].done
                  /\ pc[t] = "d_unlock" => counter = 0
                  /\ pc[t] \in {"d_unlock", "d_end", "d_ending"})
    /\ [][\A t \in DOMAIN tcount :
            /\ loc[t].done =>
                  /\ t \in DOMAIN tcount' /\ tcount'[t] = tcount[t]
                  /\ t \in DOMAIN sum' /\ sum'[t] = sum[t]
                  /\ rowlog'[t] = rowlog[t]
            /\ pc[t] = "d_inc" /\ pc'[t] # "d_inc" =>
                  rowlog'[t] = Append(rowlog[t], entry[t] - 1)]_vars

\* one thread found the counter at 0 before it ever claimed a row and is
\* past its loop, while another has summed a row
C6_Witness ==
    \E t, u \in Workers :
        /\ pc[t] = "d_end"
        /\ entry[t] = 0
        /\ tcount[t] = 0
        /\ rowlog[u] # <<>>


\* how many of w, w+n, w+2n, ... are below rows
StrideCount(w, n) == IF w >= rows THEN 0 ELSE ((rows - 1 - w) \div n) + 1

\* the rows w, w+n, w+2n, ... below rows, in increasing order
StrideRows(w, n) == [k \in 1 .. StrideCount(w, n) |-> w + (k - 1) * n]

\* s is an initial part of q
IsPrefix(s, q) ==
    /\ Len(s) <= Len(q)
    /\ \A k \in 1 .. Len(s) : s[k] = q[k]

\* C7: in static mode thread w of n_threads sums the rows w, w + n_threads,
\* w + 2 n_threads, ... below rows, in that order and no other row: what it
\* has summed so far is always an initial part of that sequence, and all of
\* it when the thread has returned.
C7_StaticAssignment ==
    \A t \in Tids :
        pc[t] # "unborn" /\ dflag = 0 =>
            /\ IsPrefix(rowlog[t], StrideRows(t, n_threads))
            /\ pc[t] = "finished" => rowlog[t] = StrideRows(t, n_threads)

\* static runs in which a thread has gone over its stride: one thread that
\* summed every row, or two threads that summed every other row
C7_Witness ==
    /\ dflag = 0
    /\ AllTerminated
    /\ \/ n_threads = 1 /\ rowlog[0] = [k \in 1 .. rows |-> k - 1]
       \/ n_threads = 2 /\ rowlog[1] = StrideRows(1, 2) /\ rowlog[1] # <<>>

RECURSIVE SumOfRows(_)
\* the sum of the elements of the rows listed in s
SumOfRows(s) ==
    IF s = <<>> THEN 0 ELSE RowSum(Head(s), cols) + SumOfRows(Tail(s))

\* C8: the slots a static run ends with depend on n_threads and work alone:
\* in every interleaving thread w returns with tcount[w] the number, and
\* sum[w] the sum, of the rows w, w + n_threads, ... below rows.
C8_StaticDeterminism ==
    \A t \in Tids :
        pc[t] = "finished" /\ dflag = 0 =>
            /\ tcount[t] = StrideCount(t, n_threads)
            /\ sum[t] = SumOfRows(StrideRows(t, n_threads))

\* a static run of two threads has ended, each thread with a sum of its own
C8_Witness ==
    /\ dflag = 0
    /\ AllTerminated
    /\ n_threads = 2
    /\ sum[0] > 0
    /\ sum[1] > 0
    /\ sum[0] # sum[1]


\* main() has returned; if it ran the computation, every thread it started
\* has returned and the totals are written
Terminated ==
    /\ main_pc = "done"
    /\ \A t \in Tids : pc[t] \in {"unborn", "finished"}
    /\ dflag # -1 => report # <<>> /\ \A t \in Workers : pc[t] = "finished"

\* C9: when every thread that can step eventually does, every thread leaves
\* its row loop and returns, every join returns and main() writes the
\* totals; and until main() has returned some thread can always step (no
\* deadlock).
C9_Termination ==
    /\ <>Terminated
    /\ [](main_pc = "done" \/ ENABLED Next)

\* main() is blocked in join() on a thread that is itself blocked in
\* counter_lock.lock() while another thread holds the lock
C9_Witness ==
    /\ main_pc = "join"
    /\ mi < n_threads
    /\ pc[mi] = "d_lock"
    /\ counter_lock # Free


\* main() is about to read a slot: tcount.at(i) at line 208, or an element
\* of sum at lines 212-213
MainReadsTcount == main_pc = "add"
MainReadsSum == main_pc = "fold" /\ mi \in DOMAIN sum

Started == {t \in Tids : pc[t] # "unborn"}

\* C11: the number of threads main() starts never exceeds
\* hardware_concurrency(), whatever the command line, also when there is no
\* -t and n_threads keeps its default 2.
C11_WithinHardware == Cardinality(Started) <= hw


\* the string s starts with a decimal number, signed or not
HasNumber(s) ==
    /\ s # <<>>
    /\ \/ IsDigit(Head(s))
       \/ Head(s) \in {"-", "+"} /\ Len(s) > 1 /\ IsDigit(s[2])

\* s is no thread count: text that is not a number, zero, or a negative
\* number
InvalidCount(s) == ~HasNumber(s) \/ Atoi(s) <= 0

\* getopt is about to return 't' with Head(args).arg as optarg
ParsesT == main_pc = "getopt" /\ args # <<>> /\ GetOpt(Head(args).o) = "t"

\* C12: a -t argument that is invalid (not a number, zero, negative) or
\* greater than hardware_concurrency() sets n_threads to
\* hardware_concurrency(), and no run is made with 0 threads.
C12_InvalidClamps ==
    /\ [][ParsesT /\ (\/ InvalidCount(Head(args).arg)
                      \/ Atoi(Head(args).arg) > hw)
            => n_threads' = hw]_vars
    /\ [](report # <<>> => n_threads >= 1)


\* C13: when the command line holds an unrecognized option, wherever it
\* stands among -d and -t, the usage message is written and nothing is
\* computed: no thread is started and no totals are written.
C13_UsageAborts == usage => Started = {} /\ report = <<>>


\* thread t is summing a row it has taken: in or just past the for loop
Summing(t) == pc[t] \in {"s_for", "s_inc", "d_for", "d_inc"}

\* C14: a thread that holds counter_lock is between lines 84 and 92 and
\* nowhere else: it is not in the for loop over the row, it does not hold
\* stdout_lock, and its next step never waits for another thread; while it
\* holds the lock its sum and tcount slots do not change and it does not
\* take stdout_lock.  A row is summed only by a thread that has released
\* counter_lock.
C14_ShortCritical ==
    /\ [](\A t \in Tids :
            /\ counter_lock = t =>
                  /\ InCritical(t)
                  /\ stdout_lock # t
                  /\ ENABLED sum_dynamic(t)
            /\ Summing(t) => counter_lock # t)
    /\ [][\A t \in DOMAIN sum :
            counter_lock = t =>
                /\ sum'[t] = sum[t]
                /\ tcount'[t] = tcount[t]
                /\ stdout_lock' # t]_vars

\* two threads are in the for loop at the same time, on different rows,
\* while a third holds counter_lock
C14_Witness ==
    \E t, u, v \in Workers :
        /\ pc[t] = "d_for"
        /\ pc[u] = "d_for"
        /\ loc[t].count_copy # loc[u].count_copy
        /\ counter_lock = v


\* C15: a slot of sum or tcount changes only in a step of the thread that
\* owns it (the thread's own round of the for loop, or its own ++tcount),
\* and then only grows; the slots stay in place, and once a thread is
\* started no step of main() changes a slot.
C15_SlotOwnership ==
    [][/\ \A u \in DOMAIN sum :
            /\ u \in DOMAIN sum' /\ u \in DOMAIN tcount'
            /\ sum'[u] # sum[u] =>
                  /\ pc[u] \in {"s_for", "d_for"}
                  /\ loc'[u].j = loc[u].j + 1
                  /\ sum'[u] > sum[u]
                  /\ tcount' = tcount
                  /\ \A w \in DOMAIN sum : w # u => sum'[w] = sum[w]
            /\ tcount'[u] # tcount[u] =>
                  /\ pc[u] \in {"s_inc", "d_inc"}
                  /\ pc'[u] # pc[u]
                  /\ tcount'[u] = tcount[u] + 1
                  /\ sum' = sum
                  /\ \A w \in DOMAIN sum : w # u => tcount'[w] = tcount[w]
       /\ Started # {} /\ mainVars' # mainVars =>
            sum' = sum /\ tcount' = tcount]_vars

\* a static run in which both threads have summed a row of their own and
\* main() has read no slot yet
C15_Witness ==
    /\ dflag = 0
    /\ n_threads = 2
    /\ main_pc = "join"
    /\ mi = 0
    /\ tcount[0] = 1 /\ sum[0] > 0
    /\ tcount[1] = 1 /\ sum[1] > 0


\* C16: whenever a thread is about to read work[row][j], row is one of
\* 0 .. rows-1 and j one of 0 .. cols-1; in sum_dynamic the row is
\* count_copy, and it is read only by a thread that is not done and whose
\* count_copy is the row it took (one below the counter it found); and
\* every thread's id is an index of sum and of tcount, below n_threads.
C16_InRange ==
    \A t \in Tids :
        /\ pc[t] = "s_for" => loc[t].i \in RowIdx /\ loc[t].j \in ColIdx
        /\ pc[t] = "d_for" =>
              /\ loc[t].count_copy \in RowIdx
              /\ loc[t].j \in ColIdx
              /\ ~loc[t].done
              /\ entry[t] > 0
              /\ loc[t].count_copy = entry[t] - 1
        /\ pc[t] # "unborn" =>
              t < n_threads /\ t \in DOMAIN sum /\ t \in DOMAIN tcount

\* the thread with the highest id is about to read the last element of
\* row 0
C16_Witness ==
    \E t \in Workers :
        /\ t = n_threads - 1
        /\ t >= 1
        /\ pc[t] = "d_for"
        /\ loc[t].count_copy = 0
        /\ loc[t].j = cols - 1


\* C17: in a static run with more threads than rows, a thread w >= rows
\* never enters the loop body: its tcount and sum stay 0 and it goes from
\* its start line straight to its ending line and returns; a thread
\* w < rows sums row w and nothing else; and the totals main() writes are
\* rows and the reference sum.
C17_MoreThreadsThanRows ==
    /\ dflag = 0
    /\ n_threads > rows
    /\ main_pc \in {"spawn", "join", "add", "fold", "done"}
    => /\ \A t \in Workers :
            /\ t >= rows =>
                  /\ tcount[t] = 0 /\ sum[t] = 0 /\ rowlog[t] = <<>>
                  /\ pc[t] \in {"unborn", "s_start", "s_starting", "s_end",
                                "s_ending", "finished"}
            /\ t < rows => IsPrefix(rowlog[t], <<t>>)
            /\ t < rows /\ pc[t] = "finished" =>
                  /\ rowlog[t] = <<t>>
                  /\ tcount[t] = 1
                  /\ sum[t] = RowSum(t, cols)
       /\ report # <<>> => report = <<rows, ReferenceSum>>

\* a static run with more threads than rows has reported, and its last
\* thread has returned without a row
C17_Witness ==
    /\ dflag = 0
    /\ n_threads > rows
    /\ report # <<>>
    /\ pc[n_threads - 1] = "finished"
    /\ tcount[n_threads - 1] = 0


\* the row a thread of sum_dynamic has taken from the counter and not yet
\* counted in tcount: the counter it has just decremented (before line 90),
\* then its count_copy
InFlight(t) ==
    IF pc[t] = "d_copy" /\ ~loc[t].done THEN {counter}
    ELSE IF pc[t] = "d_unlock" /\ ~loc[t].done THEN {loc[t].count_copy}
    ELSE IF pc[t] \in {"d_for", "d_inc"} THEN {loc[t].count_copy}
    ELSE {}

\* the rows thread t has taken so far
ClaimedBy(t) == {rowlog[t][k] : k \in DOMAIN rowlog[t]} \cup InFlight(t)

\* the rows taken so far by all threads
Claimed == UNION {ClaimedBy(t) : t \in Tids}

\* C18: in dynamic mode the rows taken so far are exactly counter .. rows-1
\* (so the k-th row taken is rows - k), no row is taken by two threads, and
\* the rows one thread takes go strictly down.
C18_Descending ==
    dflag = 1 =>
        /\ Claimed = counter .. (rows - 1)
        /\ \A t, u \in Tids : t # u => ClaimedBy(t) \cap ClaimedBy(u) = {}
        /\ \A t \in Tids :
              /\ \A k \in 1 .. (Len(rowlog[t]) - 1) :
                    rowlog[t][k] > rowlog[t][k + 1]
              /\ \A r \in InFlight(t) :
                    \A k \in DOMAIN rowlog[t] : rowlog[t][k] > r

\* one of several threads has summed row rows-1 and then row rows-2
C18_Witness ==
    /\ dflag = 1
    /\ n_threads >= 2
    /\ \E t \in Workers :
          /\ Len(rowlog[t]) >= 2
          /\ rowlog[t][1] = rows - 1
          /\ rowlog[t][2] = rows - 2


RECURSIVE TcountSum(_)
\* tcount[0] + ... + tcount[n-1]
TcountSum(n) == IF n = 0 THEN 0 ELSE TcountSum(n - 1) + tcount[n - 1]

\* the sum of all slots of tcount
TcountTotal == TcountSum(Cardinality(DOMAIN tcount))

\* the threads that have taken a row and not yet counted it
Pending == {t \in Tids : InFlight(t) # {}}

\* C19: in dynamic mode, at every moment, counter plus the sum of tcount
\* plus the number of threads that have taken a row and not yet counted it
\* is rows; so the sum of tcount is never above rows.
C19_Conservation ==
    dflag = 1 =>
        /\ counter + TcountTotal + Cardinality(Pending) = rows
        /\ TcountTotal <= rows

\* mid-run: one row is counted, one is being summed, the counter is 0 and
\* a further thread is still running
C19_Witness ==
    /\ dflag = 1
    /\ n_threads = 3
    /\ counter = 0
    /\ TcountTotal = rows - 1
    /\ Cardinality(Pending) = 1
    /\ \E t \in Workers : pc[t] = "d_lock"


\* C20: main() reads tcount[i] only when thread i has returned, and an
\* element of sum only when all threads have returned; a slot of a thread
\* that has returned never changes again, so what main() reads is the
\* thread's final value (the count, and the sum, of all rows the thread
\* summed) and no thread writes the slot while main() reads it.
C20_ReadsFinalValues ==
    /\ [](MainReadsTcount =>
            /\ mi \in Workers
            /\ pc[mi] = "finished"
            /\ tcount[mi] = Len(rowlog[mi]))
    /\ [](MainReadsSum =>
            /\ \A t \in Workers : pc[t] = "finished"
            /\ sum[mi] = SumOfRows(rowlog[mi]))
    /\ [][\A t \in DOMAIN tcount :
            pc[t] = "finished" =>
                /\ pc'[t] = "finished"
                /\ tcount'[t] = tcount[t]
                /\ sum'[t] = sum[t]
                /\ rowlog'[t] = rowlog[t]]_vars
    /\ [][MainReadsTcount /\ main_pc' # main_pc =>
            total_work' = total_work + Len(rowlog[mi])]_vars
    /\ [][MainReadsSum /\ mi' # mi =>
            gross_sum' = gross_sum + SumOfRows(rowlog[mi])]_vars

\* main() is about to read the sum of the last of several threads of a
\* dynamic run, and that thread has summed a row
C20_Witness ==
    /\ MainReadsSum
    /\ dflag = 1
    /\ mi >= 1
    /\ mi = n_threads - 1
    /\ rowlog[mi] # <<>>

=============================================================================
